---- MODULE Spec2Model ----
(***************************************************************************)
(* A model of codeql-postproc: the CodeQL database property store          *)
(* (helpers/codeql.py), the SARIF provenance writer (helpers/sarif.py) and *)
(* the get-property command (cli.py).                                      *)
(*                                                                         *)
(* Strings the code takes apart (property keys, pointer paths) are         *)
(* sequences of one-character strings; file and directory names, which the *)
(* code only compares, are TLA+ strings.  A YAML/JSON/Python value is a    *)
(* record [t, v]: t is the type tag, v the payload.                        *)
(***************************************************************************)
EXTENDS Integers, Sequences, FiniteSets, TLC

VARIABLES form, tree, pre, last, sarifFile, sarifPre, sarifLast

vars == <<form, tree, pre, last, sarifFile, sarifPre, sarifLast>>

dbVars == <<form, tree, pre, last>>

sarifVars == <<sarifFile, sarifPre, sarifLast>>

---------------------------------------------------------------------------
(* Values: what yaml.safe_load / json.loads return and what callers pass.  *)

Null == [t |-> "null", v |-> 0]

Num(n) == [t |-> "int", v |-> n]

Str(s) == [t |-> "str", v |-> s]

List(s) == [t |-> "seq", v |-> s]

Dict(m) == [t |-> "map", v |-> m]

\* A Python tuple: yaml.dump writes it with the tag !!python/tuple, which
\* yaml.safe_load refuses.
PyTuple(s) == [t |-> "tuple", v |-> s]

\* A Python object yaml.dump cannot represent (a generator: its
\* __reduce_ex__ raises TypeError).
PyGenerator == [t |-> "gen", v |-> 0]

\* The dict {k: x}.
Entry(k, x) == [key \in {k} |-> x]

\* Python's truth value of a value: `if existing_props and ...`.
Truthy(d) ==
    CASE d.t = "null" -> FALSE
      [] d.t = "int" -> d.v # 0
      [] d.t \in {"str", "seq", "tuple"} -> Len(d.v) > 0
      [] d.t = "map" -> DOMAIN d.v # {}
      [] OTHER -> TRUE

\* Whether a value of type `tag` occurs anywhere in d.
RECURSIVE Contains(_, _)
Contains(d, tag) ==
    \/ d.t = tag
    \/ /\ d.t \in {"seq", "tuple"}
       /\ \E i \in 1..Len(d.v) : Contains(d.v[i], tag)
    \/ /\ d.t = "map"
       /\ \E k \in DOMAIN d.v : Contains(d.v[k], tag)

---------------------------------------------------------------------------
(* Results of an operation: a returned value or the exception raised.      *)

Ok(x) == [st |-> "ok", val |-> x]

Raise(e) == [st |-> e, val |-> Null]

---------------------------------------------------------------------------
(* CodeQLDatabase.__translate_key and jsonpointer.JsonPointer              *)

\* The digits of the pattern [0-9].
AsciiDigits == {"0", "1", "2", "3", "4", "5", "6", "7", "8", "9"}

\* The character U+0663 (ARABIC-INDIC DIGIT THREE), named by its code
\* point: a decimal digit outside ASCII.
ArabicIndicThree == "U+0663"

\* What \d matches in a str pattern: every Unicode decimal digit.
Digits == AsciiDigits \cup {ArabicIndicThree}

\* key.replace(".", "/")
ReplaceDots(s) == [i \in 1..Len(s) |-> IF s[i] = "." THEN "/" ELSE s[i]]

\* The length of the run of digits of s that starts at position i.
RECURSIVE DigitRun(_, _)
DigitRun(s, i) ==
    IF i <= Len(s) /\ s[i] \in Digits THEN 1 + DigitRun(s, i + 1) ELSE 0

\* re.sub(r"\[(\d+)\]", r"/\1", s), scanning s from position i.
RECURSIVE SubIndices(_, _)
SubIndices(s, i) ==
    IF i > Len(s) THEN <<>>
    ELSE LET n == DigitRun(s, i + 1) IN
         IF s[i] = "[" /\ n > 0 /\ i + n + 1 <= Len(s) /\ s[i + n + 1] = "]"
         THEN <<"/">> \o SubSeq(s, i + 1, i + n) \o SubIndices(s, i + n + 2)
         ELSE <<s[i]>> \o SubIndices(s, i + 1)

\* The pointer path __translate_key hands to JsonPointer.
translate_path(key) ==
    LET path == SubIndices(ReplaceDots(key), 1) IN
    IF Len(path) > 0 /\ path[1] = "/" THEN path ELSE <<"/">> \o path

\* JsonPointer._RE_INVALID_ESCAPE: (~[^01]|~$)
InvalidEscape(path) ==
    \E i \in 1..Len(path) :
        /\ path[i] = "~"
        /\ (i = Len(path) \/ path[i + 1] \notin {"0", "1"})

\* path.split("/")
RECURSIVE Split(_, _, _)
Split(s, i, cur) ==
    IF i > Len(s) THEN <<cur>>
    ELSE IF s[i] = "/" THEN <<cur>> \o Split(s, i + 1, <<>>)
    ELSE Split(s, i + 1, Append(cur, s[i]))

\* part.replace(<<"~", c>>, r), scanning from position i.
RECURSIVE ReplaceEscape(_, _, _, _)
ReplaceEscape(s, i, c, r) ==
    IF i > Len(s) THEN <<>>
    ELSE IF s[i] = "~" /\ i < Len(s) /\ s[i + 1] = c
    THEN <<r>> \o ReplaceEscape(s, i + 2, c, r)
    ELSE <<s[i]>> \o ReplaceEscape(s, i + 1, c, r)

\* jsonpointer.unescape: "~1" -> "/", then "~0" -> "~".
Unescape(part) == ReplaceEscape(ReplaceEscape(part, 1, "1", "/"), 1, "0", "~")

\* JsonPointer(path).parts, for a path that starts with "/".
PointerParts(path) ==
    LET raw == Split(path, 1, <<>>) IN
    [i \in 1..(Len(raw) - 1) |-> Unescape(raw[i + 1])]

\* __translate_key: the pointer's parts, or the JsonPointerException its
\* constructor raises.
translate_key(key) ==
    LET path == translate_path(key) IN
    IF InvalidEscape(path) THEN Raise("JsonPointerException")
    ELSE Ok(PointerParts(path))

\* JsonPointer._RE_ARRAY_INDEX matches the whole of part: "0", or a run of
\* digits that does not start with "0".
ArrayIndexMatch(part) ==
    \/ part = <<"0">>
    \/ /\ Len(part) > 0
       /\ part[1] \in AsciiDigits \ {"0"}
       /\ \A i \in 1..Len(part) : part[i] \in AsciiDigits

DigitValue(c) ==
    CASE c = "0" -> 0 [] c = "1" -> 1 [] c = "2" -> 2 [] c = "3" -> 3
      [] c = "4" -> 4 [] c = "5" -> 5 [] c = "6" -> 6 [] c = "7" -> 7
      [] c = "8" -> 8 [] c = "9" -> 9 [] c = ArabicIndicThree -> 3

\* int(part) for a part made of digits.
RECURSIVE ToInt(_)
ToInt(part) ==
    IF Len(part) = 0 THEN 0
    ELSE 10 * ToInt(SubSeq(part, 1, Len(part) - 1)) + DigitValue(part[Len(part)])

\* jsonpointer.EndOfList: what the part "-" refers to in a sequence.
EndOfList == [t |-> "endoflist", v |-> 0]

\* JsonPointer.walk: one step into doc.  st is "ok" or "miss" (a
\* JsonPointerException).
Walk(doc, part) ==
    CASE doc.t = "map" ->
            IF part \in DOMAIN doc.v THEN [st |-> "ok", val |-> doc.v[part]]
            ELSE [st |-> "miss", val |-> Null]
      [] doc.t \in {"seq", "str", "tuple"} ->
            IF part = <<"-">> THEN [st |-> "ok", val |-> EndOfList]
            ELSE IF ~ArrayIndexMatch(part) THEN [st |-> "miss", val |-> Null]
            ELSE IF ToInt(part) >= Len(doc.v) THEN [st |-> "miss", val |-> Null]
            ELSE [st |-> "ok",
                  val |-> IF doc.t = "str" THEN Str(<<doc.v[ToInt(part) + 1]>>)
                          ELSE doc.v[ToInt(part) + 1]]
      [] OTHER -> [st |-> "miss", val |-> Null]

\* JsonPointer.resolve without its default: the walk over parts i..
RECURSIVE Resolve(_, _, _)
Resolve(doc, parts, i) ==
    IF i > Len(parts) THEN [st |-> "ok", val |-> doc]
    ELSE LET step == Walk(doc, parts[i]) IN
         IF step.st = "ok" THEN Resolve(step.val, parts, i + 1) ELSE step

\* JsonPointer.get(doc, default=None)
PointerGet(doc, parts) ==
    LET r == Resolve(doc, parts, 1) IN
    IF r.st = "ok" THEN Ok(r.val) ELSE Ok(Null)

---------------------------------------------------------------------------
(* Files.  A tree maps a path (a sequence of names) to what is stored      *)
(* there: the directory tree of a directory-form database, or the entries  *)
(* of a database archive.  A YAML file is kept as the value it holds and   *)
(* who wrote it ("external": present before any call here, "dump": written *)
(* by yaml.dump, "truncated": opened for writing and left empty), so a     *)
(* rewrite shows even when the value is the same.                          *)

YamlFile(d, by) == [kind |-> "yaml", doc |-> d, by |-> by]

\* A file whose bytes are not UTF-8 text (a source archive).
Blob == [kind |-> "blob", doc |-> Null, by |-> "external"]

\* A text file that is not YAML (a log, garbage).
TextBlob == [kind |-> "text", doc |-> Null, by |-> "external"]

\* A directory entry of an archive.
DirEntry == [kind |-> "dir", doc |-> Null, by |-> "external"]

TruncatedFile == YamlFile(Null, "truncated")

\* yaml.safe_load of a file's content.  mode is how the code reads it:
\* "text" through a file opened in text mode (path.open()), which decodes
\* the bytes before the parser sees them, or "bytes" as read from an
\* archive entry (ZipFile.read).
safe_load(content, mode) ==
    CASE content.kind = "dir" ->
            IF mode = "text" THEN Raise("IsADirectoryError") ELSE Ok(Null)
      [] content.kind = "blob" ->
            IF mode = "text" THEN Raise("UnicodeDecodeError") ELSE Raise("YAMLError")
      [] content.kind = "text" -> Raise("YAMLError")
      [] Contains(content.doc, "tuple") -> Raise("YAMLError")
      [] OTHER -> Ok(content.doc)

\* yaml.dump(props): the file content, or the TypeError of an object
\* that cannot be represented.
yaml_dump(props) ==
    IF Contains(props, "gen") THEN Raise("TypeError")
    ELSE Ok(YamlFile(props, "dump"))

\* t with `content` stored at path p.
Store(t, p, content) == Entry(p, content) @@ t

---------------------------------------------------------------------------
(* CodeQLDatabase.__init__                                                 *)

\* zi.filename.split("/") of the entry at path p: a directory entry's
\* name ends with "/".
FilenameParts(p, content) == IF content.kind = "dir" THEN Append(p, "") ELSE p

is_db_metadata(p, content) ==
    LET path_parts == FilenameParts(p, content) IN
    Len(path_parts) = 2 /\ path_parts[2] = "codeql-database.yml"

\* Opening the database at a path of physical form f holding t: the
\* object's fields, or the exception raised.
CodeQLDatabase(f, t) ==
    CASE f = "missing" ->
            [st |-> "InvalidCodeQLDatabase", info |-> Null, md |-> <<>>]
      [] f = "dir" ->
            IF <<"codeql-database.yml">> \in DOMAIN t
            THEN LET loaded == safe_load(t[<<"codeql-database.yml">>], "text") IN
                 [st |-> loaded.st, info |-> loaded.val,
                  md |-> <<"codeql-database.yml">>]
            ELSE [st |-> "InvalidCodeQLDatabase", info |-> Null, md |-> <<>>]
      [] f = "zip" ->
            LET db_metadata_candidates ==
                    {p \in DOMAIN t : is_db_metadata(p, t[p])} IN
            IF Cardinality(db_metadata_candidates) # 1
            THEN [st |-> "InvalidCodeQLDatabase", info |-> Null, md |-> <<>>]
            ELSE LET md == CHOOSE p \in db_metadata_candidates : TRUE
                     loaded == safe_load(t[md], "bytes") IN
                 [st |-> loaded.st, info |-> loaded.val, md |-> md]
      [] OTHER -> [st |-> "InvalidCodeQLDatabase", info |-> Null, md |-> <<>>]

---------------------------------------------------------------------------
(* CodeQLDatabase.set_property                                             *)

\* `key in self.database_info`: "yes", "no", or "TypeError" when the
\* metadata is not a container.
KeyIn(key, info) ==
    CASE info.t = "map" -> IF key \in DOMAIN info.v THEN "yes" ELSE "no"
      [] info.t \in {"seq", "tuple"} ->
            IF \E i \in 1..Len(info.v) : info.v[i] = Str(key) THEN "yes" ELSE "no"
      [] info.t = "str" ->
            IF \E i \in 1..(Len(info.v) + 1) :
                   /\ i + Len(key) - 1 <= Len(info.v)
                   /\ SubSeq(info.v, i, i + Len(key) - 1) = key
            THEN "yes" ELSE "no"
      [] OTHER -> "TypeError"

\* ImmutableCheck with the slip of refusing a call only when all of its
\* keys are immutable.
ImmutableCheckAllKeys(info, kwargs) ==
    IF DOMAIN kwargs = {} THEN "ok"
    ELSE IF \E k \in DOMAIN kwargs : KeyIn(k, info) = "TypeError" THEN "TypeError"
    ELSE IF \A k \in DOMAIN kwargs : KeyIn(k, info) = "yes" THEN "KeyError"
    ELSE "ok"

\* The check that opens set_property: the exception it raises, or "ok".
ImmutableCheck(info, kwargs) ==
    IF DOMAIN kwargs = {} THEN "ok"
    ELSE IF \E k \in DOMAIN kwargs : KeyIn(k, info) = "TypeError" THEN "TypeError"
    ELSE IF \E k \in DOMAIN kwargs : KeyIn(k, info) = "yes" THEN "KeyError"
    ELSE "ok"

\* update_or_set_props(database, **kwargs) on tree t: the exception (or
\* "ok") and the tree it leaves.
update_or_set_props(t, database, kwargs) ==
    LET user_properties == Append(database, "user-properties.yml")
        exists == user_properties \in DOMAIN t
        loaded == IF exists THEN safe_load(t[user_properties], "text") ELSE Ok(Dict(<<>>))
        existing_props == loaded.val
    IN  IF loaded.st # "ok" THEN [st |-> loaded.st, tree |-> t]
        ELSE IF Truthy(existing_props) /\ existing_props.t # "map"
        THEN [st |-> "InvalidCodeQLDatabase", tree |-> t]
        ELSE IF existing_props.t # "map" THEN [st |-> "TypeError", tree |-> t]
        ELSE LET props == Dict(kwargs @@ existing_props.v)
                 dumped == yaml_dump(props) IN
             \* open("w") truncates the file before yaml.dump runs
             IF dumped.st # "ok"
             THEN [st |-> dumped.st, tree |-> Store(t, user_properties, TruncatedFile)]
             ELSE [st |-> "ok", tree |-> Store(t, user_properties, dumped.val)]

\* The archive rewritten from database.glob("**/*"): what lies below the
\* top-level directory `top` of the extracted tree t, every directory on
\* the way included.
Repack(t, top) ==
    LET below == {p \in DOMAIN t : Len(p) >= 2 /\ p[1] = top}
        dirs == UNION {{SubSeq(p, 1, k) : k \in 2..(Len(p) - 1)} : p \in below}
    IN  [p \in below \cup dirs |-> IF p \in DOMAIN t THEN t[p] ELSE DirEntry]

\* set_property(**kwargs) on the opened database db: the result and the
\* tree left on disk.
set_property(f, t, db, kwargs) ==
    LET check == ImmutableCheck(db.info, kwargs) IN
    IF check # "ok" THEN [res |-> Raise(check), tree |-> t]
    ELSE IF f = "dir"
    THEN LET w == update_or_set_props(t, <<>>, kwargs) IN
         [res |-> IF w.st = "ok" THEN Ok(Null) ELSE Raise(w.st), tree |-> w.tree]
    ELSE LET top == db.md[1]
             w == update_or_set_props(t, <<top>>, kwargs) IN
         IF w.st # "ok" THEN [res |-> Raise(w.st), tree |-> t]
         ELSE [res |-> Ok(Null), tree |-> Repack(w.tree, top)]

---------------------------------------------------------------------------
(* CodeQLDatabase.get_property                                             *)

\* The file names that end with "user-properties.yml".
UserPropertyNames == {"user-properties.yml", "old-user-properties.yml"}

\* zi.filename.endswith("user-properties.yml")
is_user_property_file(p, content) ==
    content.kind # "dir" /\ Len(p) > 0 /\ p[Len(p)] \in UserPropertyNames

\* The overlay get_property loads: a value, or the exception raised.
LoadUserProperties(f, t) ==
    IF f = "dir"
    THEN IF <<"user-properties.yml">> \in DOMAIN t
         THEN safe_load(t[<<"user-properties.yml">>], "text")
         ELSE Ok(Null)
    ELSE LET user_property_candidates ==
                 {p \in DOMAIN t : is_user_property_file(p, t[p])} IN
         IF Cardinality(user_property_candidates) # 1
         THEN Raise("InvalidCodeQLDatabase")
         ELSE safe_load(t[CHOOSE p \in user_property_candidates : TRUE], "bytes")

get_property(f, t, db, key) ==
    LET ptr == translate_key(key) IN
    IF ptr.st # "ok" THEN ptr
    ELSE LET database_property == PointerGet(db.info, ptr.val) IN
         IF database_property.st # "ok" THEN database_property
         ELSE IF database_property.val # Null THEN database_property
         ELSE LET user_properties == LoadUserProperties(f, t) IN
              IF user_properties.st # "ok" THEN user_properties
              ELSE PointerGet(user_properties.val, ptr.val)

---------------------------------------------------------------------------
(* cli.py: database get-property                                           *)

\* click.Choice(["json", "yaml"]) of the option --format.
OutputFormats == {"json", "yaml"}

\* json.dump(value, sys.stdout) raises TypeError on a value that is no JSON
\* document; yaml.dump writes any object.
Serializable(output_format, value) ==
    output_format = "yaml" \/ ~Contains(value, "endoflist")

\* The command's exit status and what it writes to stderr, on a database
\* path of physical form f, given what opening the database and
\* get_property did.  click.Path(exists=True) turns down a path that does
\* not exist before the body runs.
cli_get_property(f, output_format, res) ==
    CASE f = "missing" -> [exit |-> 2, stderr |-> "usage error"]
      [] res.st = "ok" ->
            IF Serializable(output_format, res.val)
            THEN [exit |-> 0, stderr |-> "none"]
            ELSE [exit |-> 1, stderr |-> "traceback"]
      [] res.st = "KeyError" -> [exit |-> 1, stderr |-> "no property with key"]
      [] res.st = "InvalidCodeQLDatabase" -> [exit |-> 1, stderr |-> "invalid database"]
      [] OTHER -> [exit |-> 1, stderr |-> "traceback"]

---------------------------------------------------------------------------
(* The databases, keys and values the model runs on.                       *)

K_a == <<"a">>

K_b == <<"b">>

K_m == <<"m">>

K_n == <<"n">>

K_s == <<"s">>

K_z == <<"z">>

K_a_dot_b == <<"a", ".", "b">>

K_a_idx0 == <<"a", "[", "0", "]">>

K_m_dot_b == <<"m", ".", "b">>

K_s_idx0 == <<"s", "[", "0", "]">>

K_a_tilde == <<"a", "~">>

K_s_idx00 == <<"s", "[", "0", "0", "]">>

K_s_dash == <<"s", ".", "-">>

K_a_idx_u0663 == <<"a", "[", ArabicIndicThree, "]">>

\* The immutable metadata: {m: {b: 1}, n: null, s: [7]}.
DatabaseInfo ==
    Dict(Entry(K_m, Dict(Entry(K_b, Num(1)))) @@ Entry(K_n, Null)
         @@ Entry(K_s, List(<<Num(7)>>)))

\* The keys set_property is called with.
SetKeys == {K_a, K_a_dot_b, K_a_idx_u0663, K_m}

\* The values set_property is called with.
SetValues ==
    {Num(1), PyGenerator}

\* The keys get_property is called with.
GetKeys ==
    {K_a, K_b, K_m, K_n, K_z, K_a_dot_b, K_a_idx0, K_m_dot_b, K_s_idx0, K_a_tilde,
     K_s_idx00, K_s_dash, K_a_idx_u0663}

\* The largest number of keyword arguments of one set_property call.
MaxKwargs == 2

\* The kwargs of a call: a dict from one to MaxKwargs keys to values.
KwargsChoices ==
    UNION {[ks -> SetValues] :
               ks \in {x \in SUBSET SetKeys : x # {} /\ Cardinality(x) <= MaxKwargs}}

\* user-properties.yml as found before the first call: absent ("none")
\* or a file written earlier, one of them by set_property(a=(1,)).
InitialOverlays ==
    {YamlFile(Dict(Entry(K_a, List(<<Num(9)>>))), "external"),
     YamlFile(Dict(Entry(K_n, Num(5)) @@ Entry(K_z, Num(4))), "external"),
     YamlFile(Dict(<<>>), "external"),
     YamlFile(Null, "external"),
     YamlFile(List(<<>>), "external"),
     YamlFile(List(<<Num(1)>>), "external"),
     YamlFile(Dict(Entry(K_a, PyTuple(<<Num(1)>>))), "external"),
     Blob,
     TextBlob}

MetadataFile == YamlFile(DatabaseInfo, "external")

\* A directory-form database: metadata, a source archive, the overlay.
DirTree(overlay) ==
    Entry(<<"codeql-database.yml">>, MetadataFile)
    @@ Entry(<<"src.zip">>, Blob)
    @@ Entry(<<"log", "build.log">>, TextBlob)
    @@ overlay

DirTrees ==
    {DirTree(<<>>)}
    \cup {DirTree(Entry(<<"user-properties.yml">>, o)) : o \in InitialOverlays}
    \cup {Entry(<<"src.zip">>, Blob)}

\* Entries of an archive besides the database's own.
ArchiveExtras ==
    {<<>>,
     Entry(<<"db">>, DirEntry) @@ Entry(<<"README">>, TextBlob),
     Entry(<<"db", "log", "old-user-properties.yml">>, YamlFile(Dict(Entry(K_z, Num(8))), "external"))}

\* An archive-form database with top-level directory db.
ZipTree(overlay, extra) ==
    Entry(<<"db", "codeql-database.yml">>, MetadataFile)
    @@ Entry(<<"db", "src.zip">>, Blob)
    @@ Entry(<<"db", "log", "build.log">>, TextBlob)
    @@ overlay @@ extra

ZipTrees ==
    {ZipTree(<<>>, e) : e \in ArchiveExtras}
    \cup {ZipTree(Entry(<<"db", "user-properties.yml">>, o), <<>>) : o \in InitialOverlays}
    \cup {ZipTree(Entry(<<"db", "user-properties.yml">>, YamlFile(Dict(<<>>), "external")), e) :
              e \in ArchiveExtras}
    \cup {ZipTree(<<>>, Entry(<<"other", "codeql-database.yml">>, MetadataFile))}
    \cup {Entry(<<"db", "sub", "codeql-database.yml">>, MetadataFile)}

---------------------------------------------------------------------------
(* helpers/sarif.py.  A SARIF file is invalid JSON ("text") or a JSON      *)
(* object: whether it has "runs", its runs, and whether the rest of it     *)
(* conforms to the schema.  A run is its versionControlProvenance: absent, *)
(* a list of records, or something that is no list ("scalar").             *)

NoSarif == [kind |-> "none", conforms |-> FALSE, hasRuns |-> FALSE, runs |-> <<>>]

TextFile == [kind |-> "text", conforms |-> FALSE, hasRuns |-> FALSE, runs |-> <<>>]

JsonFile(conforms, hasRuns, runs) ==
    [kind |-> "json", conforms |-> conforms, hasRuns |-> hasRuns, runs |-> runs]

VcpAbsent == [t |-> "absent", v |-> <<>>]

VcpScalar == [t |-> "scalar", v |-> <<>>]

VcpList(records) == [t |-> "list", v |-> records]

Run(vcp) == [versionControlProvenance |-> vcp]

\* The record add_version_control_provenance appends.
ProvenanceRecord(repository_url, revision_id, branch) ==
    [repositoryUri |-> repository_url, revisionId |-> revision_id, branch |-> branch]

\* The schema's versionControlDetails: three strings.
RecordConforms(r) ==
    r.repositoryUri.t = "str" /\ r.revisionId.t = "str" /\ r.branch.t = "str"

\* jsonschema.validate(content, schema) passes: runs is required, and a
\* run's versionControlProvenance is an array of unique versionControlDetails.
SchemaValid(content) ==
    /\ content.conforms
    /\ content.hasRuns
    /\ \A i \in 1..Len(content.runs) :
          LET vcp == content.runs[i].versionControlProvenance IN
          \/ vcp.t = "absent"
          \/ /\ vcp.t = "list"
             /\ \A j \in 1..Len(vcp.v) : RecordConforms(vcp.v[j])
             /\ \A j, k \in 1..Len(vcp.v) : vcp.v[j] = vcp.v[k] => j = k

\* Sarif.__init__: the loaded content, or the exception raised.
Sarif(file) ==
    IF file.kind = "none" THEN [st |-> "FileNotFoundError", content |-> file]
    ELSE IF file.kind # "json" THEN [st |-> "InvalidSarif", content |-> file]
    ELSE IF ~SchemaValid(file) THEN [st |-> "ValidationError", content |-> file]
    ELSE [st |-> "ok", content |-> file]

\* AppendRecord with the slip of appending to the first run only.
AppendRecordFirstRun(runs, record) ==
    [i \in 1..Len(runs) |->
        LET vcp == runs[i].versionControlProvenance IN
        IF i = 1 THEN Run(VcpList(Append(vcp.v, record))) ELSE runs[i]]

\* One pass of the loop over the runs: the run with the record appended.
AppendRecord(runs, record) ==
    [i \in 1..Len(runs) |->
        LET vcp == runs[i].versionControlProvenance IN
        Run(VcpList(Append(vcp.v, record)))]

\* add_version_control_provenance on the loaded content: the exception
\* (or "ok") and the file it leaves at the path.
add_version_control_provenance(content, repository_url, revision_id, branch) ==
    IF ~content.hasRuns \/ Len(content.runs) = 0
    THEN [st |-> "InvalidSarif", file |-> content]
    ELSE IF \E i \in 1..Len(content.runs) :
                content.runs[i].versionControlProvenance.t = "scalar"
    THEN [st |-> "InvalidSarif", file |-> content]
    ELSE LET mutated ==
                 [content EXCEPT !.runs =
                     AppendRecord(@, ProvenanceRecord(repository_url, revision_id, branch))]
         IN  IF ~SchemaValid(mutated) THEN [st |-> "InvalidSarif", file |-> content]
             ELSE [st |-> "ok", file |-> mutated]

\* The longest versionControlProvenance array the model lets a run grow to.
MaxProvenance == 3

Uris == {Str("https://example.com/a"), Str("https://example.com/b")}

Revisions == {Str("r1"), Str("r2")}

\* A branch name, or None.
Branches == {Str("main"), Null}

Rec1 == ProvenanceRecord(Str("https://example.com/a"), Str("r1"), Str("main"))

InitialSarifFiles ==
    {TextFile,
     JsonFile(FALSE, TRUE, <<Run(VcpAbsent)>>),
     JsonFile(TRUE, FALSE, <<>>),
     JsonFile(TRUE, TRUE, <<>>),
     JsonFile(TRUE, TRUE, <<Run(VcpAbsent)>>),
     JsonFile(TRUE, TRUE, <<Run(VcpAbsent), Run(VcpAbsent)>>),
     JsonFile(TRUE, TRUE, <<Run(VcpList(<<Rec1>>)), Run(VcpAbsent)>>),
     JsonFile(TRUE, TRUE, <<Run(VcpList(<<>>)), Run(VcpScalar)>>)}

\* Whether no run of the file has a versionControlProvenance.
NoProvenance(file) ==
    \A i \in 1..Len(file.runs) : file.runs[i].versionControlProvenance.t = "absent"

\* Before the first call.  fresh: the file as found had no provenance;
\* added: the calls that succeeded so far.
NoSarifCall(file) ==
    [op |-> "none", record |-> Rec1, st |-> "ok", fresh |-> NoProvenance(file), added |-> 0]

\* One use of the class: load the file at the path, then add the record.
AddProvenance(repository_url, revision_id, branch) ==
    LET sarif == Sarif(sarifFile)
        r == IF sarif.st # "ok" THEN [st |-> sarif.st, file |-> sarifFile]
             ELSE add_version_control_provenance(
                      sarif.content, repository_url, revision_id, branch)
    IN  /\ \A i \in 1..Len(sarifFile.runs) :
              Len(sarifFile.runs[i].versionControlProvenance.v) < MaxProvenance
        /\ sarifFile' = r.file
        /\ sarifPre' = sarifFile
        /\ sarifLast' = [op |-> "add",
                         record |-> ProvenanceRecord(repository_url, revision_id, branch),
                         st |-> r.st,
                         fresh |-> sarifLast.fresh,
                         added |-> sarifLast.added + (IF r.st = "ok" THEN 1 ELSE 0)]

---------------------------------------------------------------------------
(* The state machine of the database store.  Each step is one use of the   *)
(* class as cli.py makes it: open the database at the path, then one call. *)

NoCall == [op |-> "none", key |-> <<>>, kwargs |-> <<>>, res |-> Ok(Null)]

InitDatabase ==
    /\ \/ form = "dir" /\ tree \in DirTrees
       \/ form = "zip" /\ tree \in ZipTrees
       \/ form = "missing" /\ tree = <<>>
       \/ form = "file" /\ tree = <<>>
    /\ pre = tree
    /\ last = NoCall

SetProperty(kwargs) ==
    LET db == CodeQLDatabase(form, tree)
        r == IF db.st # "ok" THEN [res |-> Raise(db.st), tree |-> tree]
             ELSE set_property(form, tree, db, kwargs)
    IN  /\ tree' = r.tree
        /\ pre' = tree
        /\ last' = [op |-> "set", key |-> <<>>, kwargs |-> kwargs, res |-> r.res]
        /\ UNCHANGED form

GetProperty(key) ==
    LET db == CodeQLDatabase(form, tree)
        res == IF db.st # "ok" THEN Raise(db.st)
               ELSE get_property(form, tree, db, key)
    IN  /\ pre' = tree
        /\ last' = [op |-> "get", key |-> key, kwargs |-> <<>>, res |-> res]
        /\ UNCHANGED <<form, tree>>

Init ==
    /\ InitDatabase
    /\ sarifFile = NoSarif /\ sarifPre = NoSarif /\ sarifLast = NoSarifCall(NoSarif)

Next ==
    \/ \E kwargs \in KwargsChoices : SetProperty(kwargs) /\ UNCHANGED sarifVars
    \/ \E key \in GetKeys : GetProperty(key) /\ UNCHANGED sarifVars

Spec == Init /\ [][Next]_vars

SarifInit ==
    /\ form = "missing" /\ tree = <<>> /\ pre = <<>> /\ last = NoCall
    /\ sarifFile \in InitialSarifFiles
    /\ sarifPre = sarifFile
    /\ sarifLast = NoSarifCall(sarifFile)

SarifNext ==
    \E u \in Uris, r \in Revisions, b \in Branches :
        AddProvenance(u, r, b) /\ UNCHANGED dbVars

SarifSpec == SarifInit /\ [][SarifNext]_vars

---------------------------------------------------------------------------
(* What the claims speak of.                                               *)

\* The database as the last call opened it.
PreDb == CodeQLDatabase(form, pre)

\* Whether key names a location of doc (whatever value is stored there).
Found(doc, key) ==
    /\ translate_key(key).st = "ok"
    /\ Resolve(doc, translate_key(key).val, 1).st = "ok"

\* The value stored in doc at key.
ValueAt(doc, key) == Resolve(doc, translate_key(key).val, 1).val

\* How get_property reads the files of a database of physical form f.
ReadMode(f) == IF f = "dir" THEN "text" ELSE "bytes"

\* Where the overlay of the opened database db lives.
OverlayPath(f, db) ==
    IF f = "dir" THEN <<"user-properties.yml">> ELSE <<db.md[1], "user-properties.yml">>

\* The overlay the last call found: the empty mapping when there was none.
PreOverlay ==
    IF OverlayPath(form, PreDb) \in DOMAIN pre
    THEN pre[OverlayPath(form, PreDb)].doc
    ELSE Dict(<<>>)

\* The directory-form database an archive extracts to: what lies below
\* its top-level directory.
DirView(t, top) ==
    LET below == {p \in DOMAIN t : Len(p) >= 2 /\ p[1] = top} IN
    [q \in {Tail(p) : p \in below} |-> t[<<top>> \o q]]

\* C1: on a directory database, after a successful set_property(mapping),
\* get_property(k) returns the value written for k, for every key k of the
\* mapping, whatever characters the key holds and whatever the value is.
C1_RoundTripEveryKey ==
    (last.op = "set" /\ last.res.st = "ok" /\ form = "dir")
    => \A k \in DOMAIN last.kwargs :
          get_property(form, tree, CodeQLDatabase(form, tree), k) = Ok(last.kwargs[k])

\* C2: a set_property whose mapping holds a top-level key of the immutable
\* metadata raises the conflict error (KeyError) and leaves every file, and
\* the archive, as it was.
C2_ConflictWritesNothing ==
    (/\ last.op = "set" /\ PreDb.st = "ok" /\ PreDb.info.t = "map"
     /\ \E k \in DOMAIN last.kwargs : k \in DOMAIN PreDb.info.v)
    => (last.res = Raise("KeyError") /\ tree = pre)

\* A call with one conflicting and one fresh key, on an archive.
C2_Witness ==
    /\ last.op = "set" /\ form = "zip" /\ PreDb.st = "ok"
    /\ DOMAIN last.kwargs = {K_m, K_a}
    /\ last.res = Raise("KeyError")
    /\ OverlayPath(form, PreDb) \in DOMAIN pre

\* C3: get_property of a key that names a location of the immutable
\* metadata returns the metadata's value, whatever mapping the overlay (if
\* there is one) holds.
C3_ImmutableNeverShadowed ==
    (/\ last.op = "get" /\ PreDb.st = "ok" /\ Found(PreDb.info, last.key)
     /\ (OverlayPath(form, PreDb) \in DOMAIN pre
            => /\ safe_load(pre[OverlayPath(form, PreDb)], ReadMode(form)).st = "ok"
               /\ PreOverlay.t = "map"))
    => last.res = Ok(ValueAt(PreDb.info, last.key))

\* C4: get_property of a key found neither in the metadata nor in the
\* overlay raises KeyNotFound (KeyError), and the command exits non-zero
\* with a message on stderr.
C4_AbsentKeyRaisesKeyNotFound ==
    (/\ last.op = "get" /\ PreDb.st = "ok"
     /\ translate_key(last.key).st = "ok"
     /\ ~Found(PreDb.info, last.key)
     /\ ~Found(PreOverlay, last.key)
     /\ (OverlayPath(form, PreDb) \in DOMAIN pre
            => safe_load(pre[OverlayPath(form, PreDb)], ReadMode(form)).st = "ok"))
    => /\ last.res.st = "KeyError"
       /\ \A output_format \in OutputFormats :
             /\ cli_get_property(form, output_format, last.res).exit # 0
             /\ cli_get_property(form, output_format, last.res).stderr # "none"

\* C5: after a successful set_property on an archive, the archive holds
\* exactly one metadata file, the merged overlay beside it, and every entry
\* it held before, with the same content.
C5_ArchiveEntriesPreserved ==
    (last.op = "set" /\ last.res.st = "ok" /\ form = "zip")
    => /\ Cardinality({p \in DOMAIN tree : is_db_metadata(p, tree[p])}) = 1
       /\ OverlayPath(form, PreDb) \in DOMAIN tree
       /\ tree[OverlayPath(form, PreDb)].doc = Dict(last.kwargs @@ PreOverlay.v)
       /\ \A p \in DOMAIN pre \ {OverlayPath(form, PreDb)} :
              p \in DOMAIN tree /\ tree[p] = pre[p]

\* C6: a set_property that fails leaves the overlay file and the archive
\* exactly as they were.
C6_WriteAllOrNothing ==
    (last.op = "set" /\ last.res.st # "ok") => tree = pre

\* C7: get_property on an archive gives what it gives on the directory
\* database the archive extracts to.
C7_ArchiveSameAsDirectory ==
    (last.op = "get" /\ form = "zip" /\ PreDb.st = "ok")
    => LET dir == DirView(pre, PreDb.md[1]) IN
       last.res = get_property("dir", dir, CodeQLDatabase("dir", dir), last.key)

\* The provenance array a run had: empty when the property was missing.
PriorProvenance(run) ==
    IF run.versionControlProvenance.t = "list" THEN run.versionControlProvenance.v
    ELSE <<>>

\* C8: after a successful add_version_control_provenance the document has
\* the runs it had, at least one, and every run's versionControlProvenance is
\* its previous array with the one record of the call appended; and after k
\* successful calls on a document that had no provenance, every run's array
\* has k elements.
C8_EveryRunGetsTheRecord ==
    /\ (sarifLast.op = "add" /\ sarifLast.st = "ok")
       => /\ Len(sarifFile.runs) = Len(sarifPre.runs)
          /\ Len(sarifFile.runs) >= 1
          /\ \A i \in 1..Len(sarifFile.runs) :
                sarifFile.runs[i].versionControlProvenance
                    = VcpList(Append(PriorProvenance(sarifPre.runs[i]), sarifLast.record))
    /\ sarifLast.fresh
       => \A i \in 1..Len(sarifFile.runs) :
             Len(PriorProvenance(sarifFile.runs[i])) = sarifLast.added

\* The second successful call on a document of two runs that had no
\* provenance: two records in each run.
C8_Witness ==
    /\ sarifLast.op = "add" /\ sarifLast.st = "ok"
    /\ sarifLast.fresh /\ sarifLast.added = 2
    /\ Len(sarifFile.runs) = 2
    /\ \A i \in 1..2 : Len(sarifFile.runs[i].versionControlProvenance.v) = 2
    /\ sarifFile.runs[1] = sarifFile.runs[2]

\* C9: whatever fails in loading a SARIF file or adding the provenance is
\* raised as InvalidSarif.
C9_EveryFailureIsInvalidSarif ==
    (sarifLast.op = "add" /\ sarifLast.st # "ok") => sarifLast.st = "InvalidSarif"

\* C10: set_property on a database whose user-properties.yml parses to
\* something that is no mapping raises InvalidDatabase; on one that parses
\* to a mapping, a successful call leaves the union of the overlay and the
\* new mapping, new values winning.
C10_NonMappingOverlayIsInvalid ==
    (/\ last.op = "set" /\ PreDb.st = "ok"
     /\ ImmutableCheck(PreDb.info, last.kwargs) = "ok"
     /\ OverlayPath(form, PreDb) \in DOMAIN pre
     /\ safe_load(pre[OverlayPath(form, PreDb)], "text").st = "ok")
    => IF PreOverlay.t # "map"
       THEN last.res.st = "InvalidCodeQLDatabase"
       ELSE last.res.st = "ok"
                => tree[OverlayPath(form, PreDb)].doc = Dict(last.kwargs @@ PreOverlay.v)

====
